---------------------------- MODULE Spec2Model ----------------------------
(***************************************************************************)
(* A model of gtpl (src/gtpl.go): the block preprocessor, the variable and *)
(* handler passes, Parse, Out and the sanitizer.                           *)
(*                                                                         *)
(* Text is a sequence of one-character strings, so that every search,      *)
(* replacement and regular expression of the source is computed on the     *)
(* characters, as the Go code computes it.                                 *)
(***************************************************************************)
EXTENDS Integers, Sequences, FiniteSets, TLC

(***************************************************************************)
(* The literal texts of the source.                                        *)
(***************************************************************************)
\* "[_GTPL_ROOT_]"
Sentinel == <<"[", "_", "G", "T", "P", "L", "_", "R", "O", "O", "T", "_", "]">>
\* "[\_GTPL_ROOT_]"
SentinelEsc == <<"[", "\\", "_", "G", "T", "P", "L", "_", "R", "O", "O", "T", "_", "]">>
\* "<!--" and "<!--\"
CommentOpen == <<"<", "!", "-", "-">>
CommentOpenEsc == <<"<", "!", "-", "-", "\\">>
\* "{" and "{\"
BraceOpen == <<"{">>
BraceOpenEsc == <<"{", "\\">>
\* "<!-- block: ", "<!-- /block: ", "<!-- handler: " and " -->"
BlockBegin == <<"<", "!", "-", "-", " ", "b", "l", "o", "c", "k", ":", " ">>
BlockEnd == <<"<", "!", "-", "-", " ", "/", "b", "l", "o", "c", "k", ":", " ">>
HandlerBegin == <<"<", "!", "-", "-", " ", "h", "a", "n", "d", "l", "e", "r", ":", " ">>
MarkerClose == <<" ", "-", "-", ">">>
Dot == <<".">>
\* [A-Za-z0-9_-]
NameChars == {"A", "B", "C", "D", "E", "F", "G", "H", "I", "J", "K", "L", "M",
              "N", "O", "P", "Q", "R", "S", "T", "U", "V", "W", "X", "Y", "Z",
              "a", "b", "c", "d", "e", "f", "g", "h", "i", "j", "k", "l", "m",
              "n", "o", "p", "q", "r", "s", "t", "u", "v", "w", "x", "y", "z",
              "0", "1", "2", "3", "4", "5", "6", "7", "8", "9", "_", "-"}
\* [A-Za-z0-9_\-\.]
PathChars == NameChars \cup {"."}
\* \s of Go's regexp: [\t\n\f\r ]
Space == {" ", "\t", "\n", "\f", "\r"}
\* [\r\n]
LineBreak == {"\r", "\n"}

(***************************************************************************)
(* package strings                                                         *)
(***************************************************************************)
\* s[i..] begins with sub
StartsAt(s, i, sub) ==
    /\ i + Len(sub) - 1 <= Len(s)
    /\ \/ Len(sub) = 0
       \/ s[i] = sub[1] /\ SubSeq(s, i, i + Len(sub) - 1) = sub

Tail_(s, i) == SubSeq(s, i, Len(s))

\* the least number of a non-empty set of numbers
Least(S) == CHOOSE x \in S : \A y \in S : x <= y

\* the greatest number of a non-empty set of numbers
Greatest(S) == CHOOSE x \in S : \A y \in S : y <= x

\* the first position >= i at which sub occurs in s, 0 when there is none
IndexFrom(s, sub, i) ==
    LET hits == {j \in i..(Len(s) - Len(sub) + 1) : StartsAt(s, j, sub)}
    IN  IF hits = {} THEN 0 ELSE Least(hits)

\* strings.Index, 1-based; 0 for no occurrence
Index(s, sub) == IndexFrom(s, sub, 1)

\* strings.LastIndex, 1-based; 0 for no occurrence
LastIndex(s, sub) ==
    LET hits == {j \in 1..(Len(s) - Len(sub) + 1) : StartsAt(s, j, sub)}
    IN  IF hits = {} THEN 0 ELSE Greatest(hits)

RECURSIVE Replace(_, _, _, _)
\* strings.Replace(s, old, new, n) for a non-empty old: the first n
\* non-overlapping occurrences, all of them when n < 0
Replace(s, old, new, n) ==
    IF n = 0 THEN s
    ELSE LET i == Index(s, old)
         IN  IF i = 0 THEN s
             ELSE SubSeq(s, 1, i - 1) \o new
                  \o Replace(Tail_(s, i + Len(old)), old, new, n - 1)

\* the occurrences of sub in s, counted without overlap from the left
RECURSIVE Count(_, _)
Count(s, sub) ==
    LET i == Index(s, sub)
    IN  IF i = 0 THEN 0 ELSE 1 + Count(Tail_(s, i + Len(sub)), sub)

Contains(s, sub) == Index(s, sub) # 0

(***************************************************************************)
(* sanitize and desanitize                                                 *)
(***************************************************************************)
sanitize(content) ==
    LET c1 == Replace(content, Sentinel, SentinelEsc, -1)
        c2 == Replace(c1, CommentOpen, CommentOpenEsc, -1)
    IN  Replace(c2, BraceOpen, BraceOpenEsc, -1)

\* desanitize without its last replacement
desanitizeNoBrace(content) ==
    Replace(Replace(content, SentinelEsc, Sentinel, -1), CommentOpenEsc, CommentOpen, -1)

desanitize(content) ==
    LET c1 == Replace(content, SentinelEsc, Sentinel, -1)
        c2 == Replace(c1, CommentOpenEsc, CommentOpen, -1)
    IN  Replace(c2, BraceOpenEsc, BraceOpen, -1)

(***************************************************************************)
(* The regular expressions of the source                                   *)
(***************************************************************************)
RECURSIVE RunLen(_, _, _)
\* the length of the longest run of characters of class starting at s[i]
RunLen(s, i, class) ==
    IF i > Len(s) \/ i < 1 THEN 0
    ELSE IF s[i] \in class THEN 1 + RunLen(s, i + 1, class)
    ELSE 0

\* open ([A-Za-z0-9_-]+) " -->" matched at s[i]: the captured name, << >> for
\* no match (the name class holds no space, so the greedy run is the name)
MarkerNameAt(s, i, open) ==
    LET j == i + Len(open)
        k == RunLen(s, j, NameChars)
    IN  IF StartsAt(s, i, open) /\ k > 0 /\ StartsAt(s, j + k, MarkerClose)
        THEN SubSeq(s, j, j + k - 1)
        ELSE << >>

\* FindStringSubmatch of begin_pattern / handler_pattern: the leftmost match
FindMarker(s, open) ==
    LET hits == {i \in 1..Len(s) : MarkerNameAt(s, i, open) # << >>}
    IN  IF hits = {} THEN [pos |-> 0, name |-> << >>]
        ELSE [pos |-> Least(hits), name |-> MarkerNameAt(s, Least(hits), open)]

BeginMarker(name) == BlockBegin \o name \o MarkerClose
EndMarker(name) == BlockEnd \o name \o MarkerClose
HandlerMarker(name) == HandlerBegin \o name \o MarkerClose

\* block_pattern "<!-- block: N -->(?ms:(.*?))<!-- /block: N -->" on s: the
\* leftmost begin marker of N that an end marker of N follows, up to the first
\* such end marker. pos = 0 for no match; else the match is s[pos..last] and
\* content the captured group.
FindBlock(s, name) ==
    LET b == Index(s, BeginMarker(name))
        cs == b + Len(BeginMarker(name))
        e == IF b = 0 THEN 0 ELSE IndexFrom(s, EndMarker(name), cs)
    IN  IF b = 0 \/ e = 0
        THEN [pos |-> 0, last |-> 0, content |-> << >>]
        ELSE [pos |-> b, last |-> e + Len(EndMarker(name)) - 1,
              content |-> SubSeq(s, cs, e - 1)]

RECURSIVE ReplaceAllBlock(_, _, _)
\* block_pattern.ReplaceAll(s, repl): every non-overlapping match, left to right
ReplaceAllBlock(s, name, repl) ==
    LET m == FindBlock(s, name)
    IN  IF m.pos = 0 THEN s
        ELSE SubSeq(s, 1, m.pos - 1) \o repl
             \o ReplaceAllBlock(Tail_(s, m.last + 1), name, repl)


(***************************************************************************)
(* The block store: a map from qualified path to content                   *)
(***************************************************************************)
\* tpl.blocks[path]: the zero value "" for a missing key
Get(m, path) == IF path \in DOMAIN m THEN m[path] ELSE << >>

\* tpl.blocks[path] = content
Put(m, path, content) ==
    [p \in DOMAIN m \cup {path} |-> IF p = path THEN content ELSE m[p]]

\* make(map[string]string)
EmptyMap == [p \in {} |-> << >>]

NoError == << >>

RECURSIVE preprocess(_, _)
\* TPL.preprocess(parent_block_name) on the block store blk: the store it
\* leaves and the error it returns (the unmatched name, NoError for nil).
\* One unfolding is one turn of the loop: the next search of the parent is the
\* recursive call on the same parent. The error of the call on the new child
\* is dropped, as in the source.
preprocess(blk, parent_block_name) ==
    LET raw_block_name == FindMarker(Get(blk, parent_block_name), BlockBegin)
    IN  IF raw_block_name.pos = 0
        THEN [blocks |-> blk, err |-> NoError]
        ELSE
          LET name == raw_block_name.name
              block_content == FindBlock(Get(blk, parent_block_name), name)
          IN  IF block_content.pos = 0
              THEN [blocks |-> blk, err |-> name]
              ELSE
                LET active_block_name == parent_block_name \o Dot \o name
                    stored == Put(blk, active_block_name, block_content.content)
                    tokenized == Put(stored, parent_block_name,
                                     ReplaceAllBlock(Get(stored, parent_block_name),
                                                     name, active_block_name))
                    sub == preprocess(tokenized, active_block_name)
                IN  preprocess(sub.blocks, parent_block_name)

(***************************************************************************)
(* The variable pass and the handler pass                                  *)
(***************************************************************************)
\* "{" + variable + "}"
Token(variable) == <<"{">> \o variable \o <<"}">>

\* the orders in which a range over a map with keys S may visit them
Orders(S) ==
    {q \in [1..Cardinality(S) -> S] : \A i, j \in 1..Cardinality(S) : i # j => q[i] # q[j]}

\* strings.Replace(content_results, "{"+variable+"}", value, -1)
ReplaceGlobal(content_results, variable, value) ==
    Replace(content_results, Token(variable), value, -1)

\* the local replacement with no limit on the occurrences
ReplaceLocalAll(content_results, variable, value) ==
    Replace(content_results, Token(variable), value, -1)

\* strings.Replace(content_results, "{"+variable+"}", value, 1)
ReplaceLocal(content_results, variable, value) ==
    Replace(content_results, Token(variable), value, 1)

RECURSIVE GlobalPass(_, _, _, _)
GlobalPass(content_results, store, order, i) ==
    IF i > Len(order) THEN content_results
    ELSE GlobalPass(ReplaceGlobal(content_results, order[i], store[order[i]]),
                    store, order, i + 1)

RECURSIVE LocalPass(_, _, _, _)
LocalPass(content_results, store, order, i) ==
    IF i > Len(order) THEN content_results
    ELSE LocalPass(ReplaceLocal(content_results, order[i], store[order[i]]),
                   store, order, i + 1)

\* TPL.assignments: the text it returns when the two ranges visit the keys in
\* the orders gorder and lorder (it also empties the local store: see Parse)
assignments(content_results, globals, gorder, locals, lorder) ==
    LocalPass(GlobalPass(content_results, globals, gorder, 1), locals, lorder, 1)

VARIABLE
    handlers            \* the package's handler registry: name -> the text the
                        \* registered function returns when it is called

\* handlers[handler_name](), "" for a name that is not registered
HandlerResult(handler_name) ==
    IF handler_name \in DOMAIN handlers THEN handlers[handler_name] ELSE << >>

RECURSIVE tplHandlers(_)
\* TPL.handlers
tplHandlers(content_results) ==
    LET handler_search == FindMarker(content_results, HandlerBegin)
    IN  IF handler_search.pos = 0 THEN content_results
        ELSE tplHandlers(Replace(content_results,
                                 HandlerMarker(handler_search.name),
                                 HandlerResult(handler_search.name), -1))

(***************************************************************************)
(* The regular expressions of Out                                          *)
(***************************************************************************)
\* the leftmost match of place_holder_pattern in s: 0 for none
FindPlaceHolder(s) ==
    LET hits == {p \in 1..Len(s) :
                   /\ StartsAt(s, p, Sentinel \o Dot)
                   /\ RunLen(s, p + Len(Sentinel) + 1, PathChars) > 0}
    IN  IF hits = {} THEN 0 ELSE Least(hits)

\* the placeholder pattern replaced at its first match only
StripFirstPlaceHolder(s) ==
    LET p == FindPlaceHolder(s)
        q == p + Len(Sentinel) + 1
    IN  IF p = 0 THEN s
        ELSE SubSeq(s, 1, p - 1) \o Tail_(s, q + RunLen(s, q, PathChars))

RECURSIVE StripPlaceHolders(_)
\* place_holder_pattern.ReplaceAll(s, "")
StripPlaceHolders(s) ==
    LET p == FindPlaceHolder(s)
        q == p + Len(Sentinel) + 1
    IN  IF p = 0 THEN s
        ELSE SubSeq(s, 1, p - 1)
             \o StripPlaceHolders(Tail_(s, q + RunLen(s, q, PathChars)))

\* (?m)^ and (?m)$ at the gap before s[i]
AtLineStart(s, i) == i = 1 \/ s[i - 1] = "\n"
AtLineEnd(s, i) == i = Len(s) + 1 \/ s[i] = "\n"

\* the end (exclusive) of the match of (?m)^\s*$[\r\n]* at s[i], 0 for none:
\* the greedy \s* gives back to the last position that is at a line end
BlankLineEnd(s, i) ==
    LET w == RunLen(s, i, Space)
        ks == {k \in 0..w : AtLineEnd(s, i + k)}
    IN  IF ~AtLineStart(s, i) \/ ks = {} THEN 0
        ELSE LET k == CHOOSE x \in ks : \A y \in ks : y <= x
             IN  i + k + RunLen(s, i + k, LineBreak)

\* the end (exclusive) of the match of [\r\n]+\s+\z at s[i], 0 for none
TrailingEnd(s, i) ==
    IF /\ i <= Len(s)
       /\ s[i] \in LineBreak
       /\ Len(s) - i + 1 >= 2
       /\ RunLen(s, i, Space) = Len(s) - i + 1
    THEN Len(s) + 1
    ELSE 0

\* the end (exclusive) of the match of the clean-up pattern at s[i], 0 for
\* none: the first alternative that matches at a position wins
CleanMatchEnd(s, i) ==
    LET a == BlankLineEnd(s, i)
    IN  IF a # 0 THEN a ELSE TrailingEnd(s, i)

RECURSIVE CleanFrom(_, _)
\* re.ReplaceAllString(s, "") from s[i] on: every non-empty match is removed,
\* left to right and without overlap; an empty match removes nothing
CleanFrom(s, i) ==
    LET hits == {j \in i..Len(s) : CleanMatchEnd(s, j) > j}
    IN  IF hits = {} THEN Tail_(s, i)
        ELSE SubSeq(s, i, Least(hits) - 1)
             \o CleanFrom(s, CleanMatchEnd(s, Least(hits)))

\* the whitespace clean-up of Out
CleanWhitespace(s) == CleanFrom(s, 1)

(***************************************************************************)
(* Source documents.  A document is written as a sequence of items: literal *)
(* text, a block region (begin marker, items, end marker) or a begin marker *)
(* that has no end marker.  Src gives the bytes that Open receives.         *)
(***************************************************************************)
Text(s) == [k |-> "text", n |-> << >>, s |-> s, body |-> << >>]
Block(n, body) == [k |-> "block", n |-> n, s |-> << >>, body |-> body]
Begin(n) == [k |-> "begin", n |-> n, s |-> << >>, body |-> << >>]

RECURSIVE Src(_)
Src(items) ==
    IF Len(items) = 0 THEN << >>
    ELSE LET it == Head(items)
         IN  (CASE it.k = "text" -> it.s
                [] it.k = "block" -> BeginMarker(it.n) \o Src(it.body) \o EndMarker(it.n)
                [] it.k = "begin" -> BeginMarker(it.n))
             \o Src(Tail(items))

\* names of blocks, variables and handlers used by the documents and the calls
N_rows == <<"r", "o", "w", "s">>
N_row == <<"r", "o", "w">>
N_a == <<"a">>
N_b == <<"b">>
N_c == <<"c">>
N_p == <<"p">>
N_d == <<"d">>
N_z == <<"z">>
N_y == <<"y">>
N_v == <<"v">>
N_g == <<"g">>
N_h == <<"h">>
N_m == <<"m">>

\* the seed document of the repetition scenario
DocSeed == << Block(N_rows, << Block(N_row, << Text(Token(N_v)) >>) >>) >>

\* (<!-- block: p --><<!-- block: c -->x{v}y<!-- /block: c -->><!-- /block: p -->)
DocRep ==
    << Text(<<"(">>),
       Block(N_p, << Text(<<"<">>),
                     Block(N_c, << Text(<<"x">> \o Token(N_v) \o <<"y">>) >>),
                     Text(<<">">>) >>),
       Text(<<")">>) >>

\* text, variable tokens and handler markers outside every block, then two
\* sibling blocks a and b
DocSib ==
    << Text(Token(N_v) \o Token(N_g) \o HandlerMarker(N_h) \o HandlerMarker(N_m)),
       Block(N_a, << Text(Token(N_v) \o Token(N_g) \o Token(N_v) \o Token(N_g)) >>),
       Text(<<"-">>),
       Block(N_b, << Text(Token(N_g) \o HandlerMarker(N_h) \o <<"\n">>) >>),
       Text(<<"\n", " ", "\n">>) >>

\* a begin marker without its end marker, at the root and inside a block
DocOpenRoot == << Text(<<"x">>), Begin(N_a), Text(<<"y">>) >>
DocOpenNested == << Block(N_a, << Text(<<"x">>), Begin(N_b) >>) >>

\* the name a at two depths: nested in itself, and in two branches
DocSameNested ==
    << Block(N_a, << Text(<<"x">>), Block(N_a, << Text(<<"y">>) >>), Text(<<"z">>) >>) >>
DocSameBranchFirst ==
    << Block(N_a, << Text(<<"x">>) >>), Block(N_b, << Block(N_a, << Text(<<"y">>) >>) >>) >>
DocSameBranchLast ==
    << Block(N_b, << Block(N_a, << Text(<<"y">>) >>) >>), Block(N_a, << Text(<<"x">>) >>) >>

\* a block followed by text that holds the escaped sentinel and a path
DocEscaped ==
    << Block(N_a, << Text(<<"x">>) >>), Text(SentinelEsc \o Dot \o N_z) >>

\* the repetition scenario with a child that holds a block of its own before
\* its text: p{ c{ d{D} !{v} } }
DocRepNested ==
    << Block(N_p, << Block(N_c, << Block(N_d, << Text(<<"D">>) >>),
                                   Text(<<"!">> \o Token(N_v)) >>) >>) >>

Docs == {DocSeed, DocRep, DocRepNested, DocSib, DocOpenRoot, DocOpenNested,
         DocSameNested, DocSameBranchFirst, DocSameBranchLast, DocEscaped}

\* the inputs of AddHandler: the names and the texts the functions return
HandlerNames == {N_h}
HandlerResults == {<<"H">>}

\* the inputs of Assign, AssignGlobal and Parse
LocalNames == {N_v}
GlobalNames == {N_g}
LocalValues == {<<"a">>, <<"b">>}
GlobalValues == {<<"G">>}
\* a path whose block is missing, and a path whose parent is missing too
MissingPaths == {N_z, N_z \o Dot \o N_y}

\* the most calls of Parse on one document
MaxParse == 3

(***************************************************************************)
(* The state                                                               *)
(***************************************************************************)
VARIABLES
    doc,                \* the source document given to the last Open (items)
    blocks,             \* tpl.blocks
    LocalAssignments,   \* tpl.LocalAssignments
    globalassignments,  \* the package's globalassignments
    err,                \* the name in the error Open returned, NoError for nil
    out,                \* what Out returned
    pc,                 \* "init", "open" (Open returned nil), "failed", "done"
    nparse,             \* calls of Parse on this document
    last,               \* the last call: its name, its argument and, for
                        \* Parse, content_results before the variable pass
                        \* (content), after it (vars) and after the handler
                        \* pass (res)
    rep,                \* history: how many calls of the repetition scenario
                        \* the calls since Open have made, -1 once they depart
    inner,              \* history: the blocks parsed since Open while every
                        \* call parsed a block once, after its descendants
    text,               \* the text given to sanitize
    escaped,            \* sanitize(text)
    restored,           \* desanitize(escaped)
    shadowBlocks,       \* history: tpl.blocks of the same calls made with each
                        \* value replaced by an inert mark
    shadowLocal,        \* history: tpl.LocalAssignments of those calls
    shadowGlobal,       \* history: globalassignments of those calls
    shadowOut           \* history: what Out returned to those calls

tplvars == <<doc, blocks, LocalAssignments, globalassignments, handlers, err,
             out, nparse, last, rep, inner>>
sanvars == <<text, escaped, restored>>
shadowvars == <<shadowBlocks, shadowLocal, shadowGlobal, shadowOut>>
vars == <<tplvars, sanvars, shadowvars, pc>>

Call(op, path, content, afterVars, res) ==
    [op |-> op, path |-> path, content |-> content, vars |-> afterVars, res |-> res]

\* "[_GTPL_ROOT_]." + block_name
Qualified(block_name) == Sentinel \o Dot \o block_name

\* block_name[:strings.LastIndex(block_name, ".")] of a qualified name
ParentOf(qualified) == SubSeq(qualified, 1, LastIndex(qualified, Dot) - 1)

\* the repetition scenario on a document whose block parent holds the block
\* child: Assign(v, a); Parse(child); Assign(v, b); Parse(child); Parse(parent);
\* Out()
Val_a == <<"a">>
Val_b == <<"b">>
RepDocs == {DocSeed, DocRep, DocRepNested}
RepParent(d) == IF d = DocSeed THEN N_rows ELSE N_p
RepChild(d) == IF d = DocSeed THEN N_rows \o Dot \o N_row ELSE N_p \o Dot \o N_c
RepCall(d, i) ==
    CASE i = 0 -> <<"Assign", N_v, Val_a>>
      [] i = 1 -> <<"Parse", RepChild(d), << >> >>
      [] i = 2 -> <<"Assign", N_v, Val_b>>
      [] i = 3 -> <<"Parse", RepChild(d), << >> >>
      [] i = 4 -> <<"Parse", RepParent(d), << >> >>
      [] i = 5 -> <<"Out", << >>, << >> >>
      [] OTHER -> <<"none", << >>, << >> >>

\* rep after the call <<op, argument, value>>
RepAfter(call) ==
    IF rep >= 0 /\ doc \in RepDocs /\ call = RepCall(doc, rep) THEN rep + 1 ELSE -1

\* the blocks of the store below the block q
Descendants(q) == {r \in DOMAIN blocks : r # q /\ StartsAt(r, 1, q \o Dot)}

\* inner after Parse(block_name)
InnerAfter(block_name) ==
    LET q == Qualified(block_name)
    IN  IF /\ inner.ok
           /\ q \in DOMAIN blocks
           /\ q \notin inner.parsed
           /\ Descendants(q) \subseteq inner.parsed
        THEN [ok |-> TRUE, parsed |-> inner.parsed \cup {q}]
        ELSE [ok |-> FALSE, parsed |-> {}]

TplInit ==
    /\ doc = << >>
    /\ blocks = EmptyMap
    /\ LocalAssignments = EmptyMap
    /\ globalassignments = EmptyMap
    /\ handlers = EmptyMap
    /\ err = NoError
    /\ out = << >>
    /\ nparse = 0
    /\ last = Call("none", << >>, << >>, << >>, << >>)
    /\ rep = -1
    /\ inner = [ok |-> FALSE, parsed |-> {}]
    /\ shadowBlocks = EmptyMap
    /\ shadowLocal = EmptyMap
    /\ shadowGlobal = EmptyMap
    /\ shadowOut = << >>

Init ==
    /\ TplInit
    /\ pc = "init"
    /\ text = << >>
    /\ escaped = << >>
    /\ restored = << >>

\* Open(fileStream): the struct is set up, the raw content stored as the root
\* block and the tree preprocessed
Open(d) ==
    /\ pc = "init"
    /\ LET r == preprocess(Put(EmptyMap, Sentinel, Src(d)), Sentinel)
       IN  /\ blocks' = r.blocks
           /\ err' = r.err
           /\ pc' = IF r.err = NoError THEN "open" ELSE "failed"
    /\ doc' = d
    /\ LocalAssignments' = EmptyMap
    /\ out' = << >>
    /\ nparse' = 0
    /\ last' = Call("Open", << >>, << >>, << >>, << >>)
    /\ rep' = IF d \in RepDocs THEN 0 ELSE -1
    /\ inner' = [ok |-> TRUE, parsed |-> {}]
    /\ UNCHANGED <<globalassignments, handlers, sanvars>>

\* AddHandler(name, fn), fn being a function that returns the text result:
\* callable at any time, before or after Open
AddHandler(name, result) ==
    /\ handlers' = Put(handlers, name, result)
    /\ last' = Call("AddHandler", name, << >>, << >>, << >>)
    /\ rep' = RepAfter(<<"AddHandler", name, result>>)
    /\ UNCHANGED <<doc, blocks, LocalAssignments, globalassignments, err, out, pc, nparse,
                   inner, sanvars>>

\* tpl.AssignGlobal(variable, value)
AssignGlobal(variable, value) ==
    /\ pc = "open"
    /\ globalassignments' = Put(globalassignments, variable, sanitize(value))
    /\ last' = Call("AssignGlobal", variable, << >>, << >>, << >>)
    /\ rep' = RepAfter(<<"AssignGlobal", variable, value>>)
    /\ UNCHANGED <<doc, blocks, LocalAssignments, handlers, err, out, pc, nparse, inner,
                   sanvars>>

\* tpl.Assign(variable, value)
Assign(variable, value) ==
    /\ pc = "open"
    /\ LocalAssignments' = Put(LocalAssignments, variable, sanitize(value))
    /\ last' = Call("Assign", variable, << >>, << >>, << >>)
    /\ rep' = RepAfter(<<"Assign", variable, value>>)
    /\ UNCHANGED <<doc, blocks, globalassignments, handlers, err, out, pc, nparse, inner,
                   sanvars>>

\* tpl.blocks[block_name] + parent_block_name
Composite(content, parent_block_name) == content \o parent_block_name

\* strings.Replace(tpl.blocks[parent], parent, content_results, 1)
Splice(parent_content, parent_block_name, content_results) ==
    Replace(parent_content, parent_block_name, content_results, 1)

\* tpl.Parse(block_name)
Parse(block_name) ==
    /\ pc = "open"
    /\ nparse < MaxParse
    /\ LET qualified == Qualified(block_name)
           parent_block_name == ParentOf(qualified)
           content == Composite(Get(blocks, qualified), parent_block_name)
       IN  \E gorder \in Orders(DOMAIN globalassignments),
              lorder \in Orders(DOMAIN LocalAssignments) :
             LET afterVars == assignments(content, globalassignments, gorder,
                                          LocalAssignments, lorder)
                 content_results == tplHandlers(afterVars)
             IN  /\ blocks' = Put(blocks, parent_block_name,
                                  Splice(Get(blocks, parent_block_name),
                                         parent_block_name, content_results))
                 /\ last' = Call("Parse", block_name, content, afterVars, content_results)
    /\ LocalAssignments' = EmptyMap
    /\ nparse' = nparse + 1
    /\ rep' = RepAfter(<<"Parse", block_name, << >> >>)
    /\ inner' = InnerAfter(block_name)
    /\ UNCHANGED <<doc, globalassignments, handlers, err, out, pc, sanvars>>

\* Out with the global replacements of the variable pass before the handlers
OutPassesVars(root) ==
    tplHandlers(GlobalPass(root, globalassignments,
                           CHOOSE q \in Orders(DOMAIN globalassignments) : TRUE, 1))

\* the passes Out runs on the root content before it strips the placeholders
OutPasses(root) == tplHandlers(root)

\* tpl.Out()
Out ==
    /\ pc = "open"
    /\ LET cleaned == CleanWhitespace(StripPlaceHolders(OutPasses(blocks[Sentinel])))
       IN  /\ blocks' = Put(blocks, Sentinel, cleaned)
           /\ out' = desanitize(cleaned)
    /\ pc' = "done"
    /\ last' = Call("Out", << >>, << >>, << >>, << >>)
    /\ rep' = RepAfter(<<"Out", << >>, << >> >>)
    /\ UNCHANGED <<doc, LocalAssignments, globalassignments, handlers, err, nparse, inner,
                   sanvars>>

\* the document goes out of use; the package's global store stays
Discard ==
    /\ pc \in {"done", "failed"}
    /\ doc' = << >>
    /\ blocks' = EmptyMap
    /\ LocalAssignments' = EmptyMap
    /\ err' = NoError
    /\ out' = << >>
    /\ pc' = "init"
    /\ nparse' = 0
    /\ last' = Call("none", << >>, << >>, << >>, << >>)
    /\ rep' = -1
    /\ inner' = [ok |-> FALSE, parsed |-> {}]
    /\ UNCHANGED <<globalassignments, handlers, sanvars>>

\* the relative paths of the blocks in the store
RelativePaths ==
    {Tail_(q, Len(Sentinel) + 2) : q \in DOMAIN blocks \ {Sentinel}}

Next ==
    \/ \E name \in HandlerNames, result \in HandlerResults :
         AddHandler(name, result) /\ UNCHANGED shadowvars
    \/ \E d \in Docs : Open(d) /\ UNCHANGED shadowvars
    \/ \E variable \in GlobalNames, value \in GlobalValues :
         AssignGlobal(variable, value) /\ UNCHANGED shadowvars
    \/ \E variable \in LocalNames, value \in LocalValues :
         Assign(variable, value) /\ UNCHANGED shadowvars
    \/ \E block_name \in RelativePaths \cup MissingPaths :
         Parse(block_name) /\ UNCHANGED shadowvars
    \/ Out /\ UNCHANGED shadowvars
    \/ Discard /\ UNCHANGED shadowvars

Spec == Init /\ [][Next]_vars

(***************************************************************************)
(* sanitize and desanitize applied to a text                               *)
(***************************************************************************)
\* the reserved sequences, their parts and the escape character
Pieces == {Sentinel, <<"[">>, Tail_(Sentinel, 2), <<"\\">>, CommentOpen, <<"<">>,
           Tail_(CommentOpen, 2), BraceOpen, <<"a">>}

\* the most pieces in a text
MaxPieces == 3

RECURSIVE Texts(_)
Texts(n) ==
    IF n = 0 THEN {<< >>}
    ELSE Texts(n - 1) \cup {t \o piece : t \in Texts(n - 1), piece \in Pieces}

SanInit ==
    /\ TplInit
    /\ pc = "text"
    /\ text \in Texts(MaxPieces)
    /\ escaped = << >>
    /\ restored = << >>

Sanitize ==
    /\ pc = "text"
    /\ escaped' = sanitize(text)
    /\ pc' = "escaped"
    /\ UNCHANGED <<tplvars, shadowvars, text, restored>>

Desanitize ==
    /\ pc = "escaped"
    /\ restored' = desanitize(escaped)
    /\ pc' = "restored"
    /\ UNCHANGED <<tplvars, shadowvars, text, escaped>>

SanNext == Sanitize \/ Desanitize

SpecSanitize == SanInit /\ [][SanNext]_vars


(***************************************************************************)
(* Values that hold template syntax.  Beside the calls, the same calls are *)
(* made on shadow stores with every value replaced by an inert mark, a     *)
(* character that is part of no syntax: what the calls do to the marks is  *)
(* what they do to a value that is not interpreted.                        *)
(***************************************************************************)
\* "<" block a with {v}{g}{v} ">"
DocVal ==
    << Text(<<"<">>),
       Block(N_a, << Text(Token(N_v) \o Token(N_g) \o Token(N_v)) >>),
       Text(<<">">>) >>

\* a variable token, a handler marker, a placeholder path and the escaped
\* sentinel
SyntaxValues ==
    <<Token(N_v), HandlerMarker(N_h), Qualified(N_a), SentinelEsc>>

\* the values given to AssignGlobal
SyntaxGlobalValues == {SentinelEsc, Token(N_v)}

\* the mark of each value of SyntaxValues
Marks == <<"#1", "#2", "#3", "#4">>

MarkOf(value) ==
    << Marks[CHOOSE i \in 1..Len(SyntaxValues) : SyntaxValues[i] = value] >>

ValueOf(mark) == SyntaxValues[CHOOSE i \in 1..Len(Marks) : Marks[i] = mark]

IsMark(ch) == \E i \in 1..Len(Marks) : Marks[i] = ch

RECURSIVE Expand(_, _)
\* s from s[i] on, each mark replaced by its value
Expand(s, i) ==
    LET hits == {j \in i..Len(s) : IsMark(s[j])}
    IN  IF hits = {} THEN Tail_(s, i)
        ELSE SubSeq(s, i, Least(hits) - 1) \o ValueOf(s[Least(hits)])
             \o Expand(s, Least(hits) + 1)

ShadowOpen ==
    /\ shadowBlocks' = blocks'
    /\ shadowLocal' = EmptyMap
    /\ shadowOut' = << >>
    /\ UNCHANGED shadowGlobal

ShadowAssign(variable, value) ==
    /\ shadowLocal' = Put(shadowLocal, variable, MarkOf(value))
    /\ UNCHANGED <<shadowBlocks, shadowGlobal, shadowOut>>

ShadowAssignGlobal(variable, value) ==
    /\ shadowGlobal' = Put(shadowGlobal, variable, MarkOf(value))
    /\ UNCHANGED <<shadowBlocks, shadowLocal, shadowOut>>

ShadowParse(block_name) ==
    /\ LET qualified == Qualified(block_name)
           parent_block_name == ParentOf(qualified)
           content == Composite(Get(shadowBlocks, qualified), parent_block_name)
           gorder == CHOOSE q \in Orders(DOMAIN shadowGlobal) : TRUE
           lorder == CHOOSE q \in Orders(DOMAIN shadowLocal) : TRUE
           content_results == tplHandlers(assignments(content, shadowGlobal, gorder,
                                                      shadowLocal, lorder))
       IN  shadowBlocks' = Put(shadowBlocks, parent_block_name,
                               Splice(Get(shadowBlocks, parent_block_name),
                                      parent_block_name, content_results))
    /\ shadowLocal' = EmptyMap
    /\ UNCHANGED <<shadowGlobal, shadowOut>>

ShadowOut ==
    /\ LET cleaned == CleanWhitespace(StripPlaceHolders(OutPasses(shadowBlocks[Sentinel])))
       IN  /\ shadowBlocks' = Put(shadowBlocks, Sentinel, cleaned)
           /\ shadowOut' = desanitize(cleaned)
    /\ UNCHANGED <<shadowLocal, shadowGlobal>>

ShadowDiscard ==
    /\ shadowBlocks' = EmptyMap
    /\ shadowLocal' = EmptyMap
    /\ shadowOut' = << >>
    /\ UNCHANGED shadowGlobal

ValuesNext ==
    \/ \E name \in HandlerNames, result \in HandlerResults :
         AddHandler(name, result) /\ UNCHANGED shadowvars
    \/ Open(DocVal) /\ ShadowOpen
    \/ \E value \in SyntaxGlobalValues :
         AssignGlobal(N_g, value) /\ ShadowAssignGlobal(N_g, value)
    \/ \E i \in 1..Len(SyntaxValues) :
         Assign(N_v, SyntaxValues[i]) /\ ShadowAssign(N_v, SyntaxValues[i])
    \/ \E block_name \in RelativePaths : Parse(block_name) /\ ShadowParse(block_name)
    \/ Out /\ ShadowOut
    \/ Discard /\ ShadowDiscard

SpecValues == Init /\ [][ValuesNext]_vars

(***************************************************************************)
(* What the documents say, read off their items (not off the block store)  *)
(***************************************************************************)
RECURSIVE BeginNames(_)
\* the names of the begin markers that have no end marker
BeginNames(items) ==
    IF Len(items) = 0 THEN {}
    ELSE LET it == Head(items)
         IN  (CASE it.k = "begin" -> {it.n}
                [] it.k = "block" -> BeginNames(it.body)
                [] OTHER -> {})
             \cup BeginNames(Tail(items))

RECURSIVE NameDepths(_, _)
\* <<name, depth>> of every block region
NameDepths(items, depth) ==
    IF Len(items) = 0 THEN {}
    ELSE LET it == Head(items)
         IN  (IF it.k = "block"
              THEN {<<it.n, depth>>} \cup NameDepths(it.body, depth + 1)
              ELSE {})
             \cup NameDepths(Tail(items), depth)

SameNameAtTwoDepths(items) ==
    \E x, y \in NameDepths(items, 0) : x[1] = y[1] /\ x[2] # y[2]

RECURSIVE DuplicateSiblings(_)
DuplicateSiblings(items) ==
    \/ \E i, j \in 1..Len(items) :
         /\ i # j
         /\ items[i].k = "block" /\ items[j].k = "block"
         /\ items[i].n = items[j].n
    \/ \E i \in 1..Len(items) : items[i].k = "block" /\ DuplicateSiblings(items[i].body)

WellFormed(items) ==
    /\ BeginNames(items) = {}
    /\ ~DuplicateSiblings(items)
    /\ ~Contains(Src(items), Sentinel)

RECURSIVE HoldsBracket(_)
\* some text of the document holds the character "["
HoldsBracket(items) ==
    /\ Len(items) # 0
    /\ \/ Head(items).k = "text" /\ Contains(Head(items).s, <<"[">>)
       \/ Head(items).k = "block" /\ HoldsBracket(Head(items).body)
       \/ HoldsBracket(Tail(items))

\* no "[" in the values of the global store nor in the handler results
NoBracketInValues ==
    /\ \A n \in DOMAIN globalassignments : ~Contains(globalassignments[n], <<"[">>)
    /\ \A n \in DOMAIN handlers : ~Contains(handlers[n], <<"[">>)

RECURSIVE Flattened(_, _)
\* the items of the region at path, each nested region replaced by its
\* placeholder
Flattened(items, path) ==
    IF Len(items) = 0 THEN << >>
    ELSE LET it == Head(items)
         IN  (CASE it.k = "text" -> it.s
                [] it.k = "block" -> path \o Dot \o it.n
                [] it.k = "begin" -> BeginMarker(it.n))
             \o Flattened(Tail(items), path)

RECURSIVE Regions(_, _)
\* <<qualified path, content>> of every block region below path
Regions(items, path) ==
    IF Len(items) = 0 THEN {}
    ELSE LET it == Head(items)
             q == path \o Dot \o it.n
         IN  (IF it.k = "block"
              THEN {<<q, Flattened(it.body, q)>>} \cup Regions(it.body, q)
              ELSE {})
             \cup Regions(Tail(items), path)

\* the block store with one entry per region at its own qualified path
ExpectedStore(items) ==
    LET rs == Regions(items, Sentinel) \cup {<<Sentinel, Flattened(items, Sentinel)>>}
    IN  [q \in {r[1] : r \in rs} |-> (CHOOSE r \in rs : r[1] = q)[2]]

HoldsBlockMarker(s) ==
    FindMarker(s, BlockBegin).pos # 0 \/ FindMarker(s, BlockEnd).pos # 0

RECURSIVE OuterText(_)
\* the text of items that lies outside every block region
OuterText(items) ==
    IF Len(items) = 0 THEN << >>
    ELSE (IF Head(items).k = "text" THEN Head(items).s ELSE << >>)
         \o OuterText(Tail(items))

RECURSIVE Repeated(_, _, _)
\* the document with the block P (depth 0) rendered once and its child (depth
\* 1) rendered once per value of v, in the order of values: a rendering of the
\* child is its own text with the first {v} replaced by the value (a block
\* nested in the child was not parsed and gives nothing)
Repeated(items, values, depth) ==
    IF Len(items) = 0 THEN << >>
    ELSE LET it == Head(items)
             once == [i \in 1..Len(values) |->
                        Replace(OuterText(it.body), Token(N_v), values[i], 1)]
         IN  (CASE it.k = "text" -> it.s
                [] it.k = "block" /\ depth = 0 -> Repeated(it.body, values, 1)
                [] it.k = "block" /\ depth # 0 -> once[1] \o once[2]
                [] OTHER -> << >>)
             \o Repeated(Tail(items), values, depth)

RECURSIVE Substituted(_, _, _, _, _)
\* one scan of s from s[i]: a token of a global name gives its value, the
\* first token of each local name gives its value, everything else is kept
Substituted(s, i, globals, locals, used) ==
    LET names == DOMAIN globals \cup (DOMAIN locals \ used)
        hits == {j \in i..Len(s) : \E n \in names : StartsAt(s, j, Token(n))}
    IN  IF hits = {} THEN Tail_(s, i)
        ELSE LET j == Least(hits)
                 n == CHOOSE n \in names : StartsAt(s, j, Token(n))
             IN  SubSeq(s, i, j - 1)
                 \o (IF n \in DOMAIN globals THEN globals[n] ELSE locals[n])
                 \o Substituted(s, j + Len(Token(n)), globals, locals,
                                IF n \in DOMAIN globals THEN used ELSE used \cup {n})

RECURSIVE HandlersApplied(_, _)
\* one scan of s from s[i]: every handler marker gives its handler's result,
\* the empty text when no handler has the name
HandlersApplied(s, i) ==
    LET hits == {j \in i..Len(s) : MarkerNameAt(s, j, HandlerBegin) # << >>}
    IN  IF hits = {} THEN Tail_(s, i)
        ELSE LET j == Least(hits)
                 n == MarkerNameAt(s, j, HandlerBegin)
             IN  SubSeq(s, i, j - 1) \o HandlerResult(n)
                 \o HandlersApplied(s, j + Len(HandlerMarker(n)))

\* where the placeholder of block q itself (not of a descendant of q) is in s
OwnPlaceHolder(s, q) ==
    LET hits == {p \in 1..Len(s) :
                   /\ StartsAt(s, p, q)
                   /\ (p + Len(q) > Len(s) \/ s[p + Len(q)] \notin PathChars)}
    IN  IF hits = {} THEN 0 ELSE Least(hits)

(***************************************************************************)
(* The claims                                                              *)
(***************************************************************************)

\* C1: after Assign(v,a); Parse(P.child); Assign(v,b); Parse(P.child);
\* Parse(P); Out() on a document whose block P holds the block child with one
\* {v}, Out returns the document with the child rendered with a and then with
\* b, whether or not the child holds a block of its own; for the seed document
\* that is exactly "ab".
C1_Repetition ==
    rep = 6 =>
      /\ out = Repeated(doc, <<Val_a, Val_b>>, 0)
      /\ doc = DocSeed => out = <<"a", "b">>

\* C2: every Parse of a block of the store inserts the resolved content into
\* the parent's content immediately before the block's own placeholder and
\* leaves that placeholder directly after it.
C2_SpliceAtOwnPlaceHolder ==
    [][(last'.op = "Parse" /\ Qualified(last'.path) \in DOMAIN blocks) =>
         LET q == Qualified(last'.path)
             parent == ParentOf(q)
             old == blocks[parent]
             own == OwnPlaceHolder(old, q)
             resolved == SubSeq(last'.res, 1, Len(last'.res) - Len(parent))
         IN  own > 0 =>
               blocks'[parent] = SubSeq(old, 1, own - 1) \o resolved \o Tail_(old, own)
      ]_vars

\* C3: when some begin marker of the document has no end marker, at any
\* depth, Open fails with an error that names such a block.
C3_UnmatchedBeginFails ==
    (last.op = "Open" /\ BeginNames(doc) # {}) =>
      (pc = "failed" /\ err \in BeginNames(doc))

\* C4: the variable pass of Parse replaces every {g} of a global name by its
\* value and leaves the global store as it was; it replaces the first {v} of a
\* name that is only local by its value, leaves every further {v} as it is and
\* leaves no name in the local store.
C4_VariablePass ==
    [][last'.op = "Parse" =>
         /\ last'.vars = Substituted(last'.content, 1, globalassignments,
                                     LocalAssignments, {})
         /\ globalassignments' = globalassignments
         /\ DOMAIN LocalAssignments' = {}
      ]_vars

C4_Witness ==
    /\ last.op = "Parse"
    /\ N_g \in DOMAIN globalassignments
    /\ Count(last.content, Token(N_g)) = 2
    /\ Count(last.vars, Token(N_g)) = 0
    /\ Count(last.content, Token(N_v)) = 2
    /\ Count(last.vars, Token(N_v)) = 1
    /\ DOMAIN LocalAssignments = {}

\* C5: a Parse of a block whose content holds no {name} leaves the local
\* entry of name in the store.
C5_UnusedEntryStays ==
    [][last'.op = "Parse" =>
         \A name \in DOMAIN LocalAssignments :
           ~Contains(last'.content, Token(name)) =>
             /\ name \in DOMAIN LocalAssignments'
             /\ LocalAssignments'[name] = LocalAssignments[name]
      ]_vars

\* C6 as claimed: Out runs the variable pass and then the handler pass on the
\* root content before it strips the placeholders.
C6_OutRunsVariablePass ==
    [][last'.op = "Out" =>
         out' = desanitize(CleanWhitespace(StripPlaceHolders(
                  HandlersApplied(Substituted(blocks[Sentinel], 1, globalassignments,
                                              LocalAssignments, {}), 1))))
      ]_vars

\* C6, amended: Out runs only the handler pass on the root content before it
\* strips the placeholders: every handler marker gives its handler's result
\* (nothing for an unregistered name), a {name} of the root content stays as
\* it is, and both assignment stores are left as they were.
C6_OutRunsHandlersOnly ==
    [][last'.op = "Out" =>
         /\ out' = desanitize(CleanWhitespace(StripPlaceHolders(
                     HandlersApplied(blocks[Sentinel], 1))))
         /\ globalassignments' = globalassignments
         /\ LocalAssignments' = LocalAssignments
      ]_vars

C6_Witness ==
    /\ last.op = "Out"
    /\ doc = DocSib
    /\ N_g \in DOMAIN globalassignments
    /\ N_v \in DOMAIN LocalAssignments
    /\ nparse = 0
    /\ out = Token(N_v) \o Token(N_g) \o <<"H">>

\* C7 as claimed: after Open of a well-formed document (markers matched, no
\* duplicate siblings, no sentinel in the source), one Parse of every block,
\* each after its descendants, and Out, the returned text holds no sentinel.
C7_NoPlaceHolderSurvives ==
    (/\ pc = "done"
     /\ inner.ok
     /\ inner.parsed = DOMAIN blocks \ {Sentinel}
     /\ WellFormed(doc))
    => ~Contains(out, Sentinel)

\* C7, amended: the same for a well-formed document with no "[" in its text,
\* in the assigned values or in the handler results (so that they hold
\* neither the sentinel, nor its escaped form, nor pieces that join into one).
C7_NoSentinelWithoutBracket ==
    (/\ pc = "done"
     /\ inner.ok
     /\ inner.parsed = DOMAIN blocks \ {Sentinel}
     /\ WellFormed(doc)
     /\ ~HoldsBracket(doc)
     /\ NoBracketInValues)
    => ~Contains(out, Sentinel)

C7_Witness ==
    /\ pc = "done"
    /\ inner.ok
    /\ inner.parsed = DOMAIN blocks \ {Sentinel}
    /\ doc = DocRep
    /\ Cardinality(inner.parsed) = 2

\* the escape sequences of the sanitizer
HoldsEscape(s) ==
    Contains(s, SentinelEsc) \/ Contains(s, CommentOpenEsc) \/ Contains(s, BraceOpenEsc)

\* C8: desanitize(sanitize(x)) = x for every text x that holds no escape
\* sequence.
C8_RoundTrip ==
    (pc = "restored" /\ ~HoldsEscape(text)) => restored = text

C8_Witness ==
    /\ pc = "restored"
    /\ ~HoldsEscape(text)
    /\ text = <<"[">> \o BraceOpen \o Sentinel
    /\ escaped # text

\* C9: Parse of a path whose block, or whose parent, is not in the store
\* leaves the block store and the local store as they were.
C9_MissIsNoOp ==
    [][(/\ last'.op = "Parse"
        /\ \/ Qualified(last'.path) \notin DOMAIN blocks
           \/ ParentOf(Qualified(last'.path)) \notin DOMAIN blocks)
       => (blocks' = blocks /\ LocalAssignments' = LocalAssignments)
      ]_vars

\* C10: for a document with matched markers that uses a block name at two
\* depths, Open succeeds, the store holds one entry per region at its own
\* path with the region's inner text (nested regions as placeholders), and no
\* stored content holds a block marker.
C10_SameNameNoCollision ==
    (last.op = "Open" /\ BeginNames(doc) = {} /\ SameNameAtTwoDepths(doc)) =>
      /\ pc = "open"
      /\ blocks = ExpectedStore(doc)
      /\ \A q \in DOMAIN blocks : ~HoldsBlockMarker(blocks[q])

\* the characters of s that are no white space, in their order
Visible(s) == SelectSeq(s, LAMBDA ch : ch \notin Space)

RECURSIVE Embeds(_, _, _)
\* the characters of a occur in b from b[i] on, in the order of a
Embeds(a, b, i) ==
    IF Len(a) = 0 THEN TRUE
    ELSE LET hits == {j \in i..Len(b) : b[j] = a[1]}
         IN  hits # {} /\ Embeds(Tail(a), b, Least(hits) + 1)

\* C11: Out keeps every character of the source text outside the block
\* regions, in its order, whether or not blocks were parsed (white space and
\* handler markers aside): for a document with matched markers and no escape
\* sequence, the visible outer text, its handler markers replaced, is embedded
\* in the text Out returns.
C11_OuterTextKept ==
    (/\ pc = "done"
     /\ last.op = "Out"
     /\ BeginNames(doc) = {}
     /\ ~SameNameAtTwoDepths(doc)
     /\ ~HoldsEscape(Src(doc)))
    => Embeds(Visible(HandlersApplied(OuterText(doc), 1)), out, 1)

\* C12: an assigned value is never interpreted as template syntax: whatever
\* values Assign and AssignGlobal were given and whatever calls followed, Out
\* returns what the same calls return for inert marks in place of the values,
\* with each mark replaced by its value (the value verbatim wherever it was
\* substituted, nothing in it replaced, invoked, spliced at or stripped).
C12_ValuesVerbatim ==
    pc = "done" => out = Expand(shadowOut, 1)

=============================================================================
